---- MODULE Spec2Model ----
(***************************************************************************)
(* A model of the MLST allele-typing pipeline of vk_mlst_analysis.py:      *)
(* the best-match selector (_find_best_allele), the job scheduler          *)
(* (_run_blast_analysis, _run_parallel_commands), the result table         *)
(* (_process_blast_results), the profile resolver (_load_mlst_profiles,    *)
(* _assign_sequence_types), the loaders (_get_fasta_files, _load_alleles,  *)
(* _load_genomes), the output directory (_create_output_directory) and the *)
(* writer (_write_results).                                                *)
(*                                                                         *)
(* Text is kept as text: a field of a BLAST row or a cell of the profile   *)
(* table is a string, int() and float() are the partial tables IntOf and   *)
(* FloatOf, str() of an allele number is the table StrOf.  A sequence id   *)
(* is the sequence of its '_'-separated tokens, so that split('_')[-1] is  *)
(* the last token.  Python's None is the empty tuple <<>>, a value v that  *)
(* may be None is <<v>>.                                                   *)
(***************************************************************************)
EXTENDS Integers, Sequences, FiniteSets, TLC

VARIABLES
    pc,             \* the step of run_analysis that runs next
    alleles,        \* keys of the alleles dict, in insertion order
    genomes,        \* keys of the genomes dict, in insertion order
    profile,        \* the profile table file (self.args.profile)
    processes,      \* workers of mp.Pool(): os.cpu_count() of the machine
    commands,       \* the jobs of _run_blast_analysis, in submission order
    output_files,   \* items of the output_files dict, in insertion order
    results,        \* the AsyncResult of each command
    waited,         \* results the loop of line 245 has got so far
    outdir,         \* the output directory: path -> file
    log,            \* records logged at WARNING or ERROR level, and the INFO
                    \* record of the removal of the output directory
    df,             \* the results DataFrame
    writes,         \* history: assignments df.loc[genome_id, allele_name] = ... so far
    written,        \* result files written by _write_results
    indir,          \* the directory of self.args.indirname
    genomedir,      \* the directory of self.args.genomedir
    force,          \* self.args.force
    formats,        \* self.args.formats, split at the commas
    outdir_exists,  \* whether the output directory exists
    exit_status,    \* the exit status of the process, None while it runs
    allele_keys,    \* history: the keys _assign_sequence_types looked up
    blast_file,     \* selector harness: the file _find_best_allele is called on
    best_allele     \* selector harness: what the call gave, None before it

\* the command line and the input directories, which no step changes
input_vars == <<indir, genomedir, force, formats>>

pipeline_vars == <<pc, alleles, genomes, profile, processes, commands,
                   output_files, results, waited, outdir, log, df, writes,
                   written, input_vars, outdir_exists, exit_status,
                   allele_keys>>

selector_vars == <<blast_file, best_allele>>

vars == <<pipeline_vars, selector_vars>>

(***************************************************************************)
(* Bounds of the model.                                                    *)
(***************************************************************************)
MaxHits == 3        \* rows of one job output in the selector harness

MaxProcesses == 2   \* largest os.cpu_count() considered

MaxRows == 2        \* rows of a profile table in the resolver harness

MaxFiles == 2       \* entries of an input directory in the loader runs

MaxFormats == 3     \* formats of --formats in the writer harness

(***************************************************************************)
(* Text conversions.                                                       *)
(***************************************************************************)
\* int(s) is defined for these texts and raises ValueError for any other
IntOf == ("0" :> 0) @@ ("1" :> 1) @@ ("2" :> 2) @@ ("7" :> 7) @@ ("8" :> 8)
         @@ ("10" :> 10)

\* float(s) of the percent identities used; any other text raises ValueError
FloatOf == ("95" :> 95) @@ ("100" :> 100)

\* str(n) of an allele number
StrOf == (0 :> "0") @@ (1 :> "1") @@ (2 :> "2") @@ (7 :> "7") @@ (8 :> "8")
         @@ (10 :> "10")

IsInt(s) == s \in DOMAIN IntOf

IsFloat(s) == s \in DOMAIN FloatOf

\* a path at which no file exists (Path.exists() is false), and a file of rows
NoFile == [exists |-> FALSE, rows |-> <<>>]

File(rows) == [exists |-> TRUE, rows |-> rows]

None == <<>>

Last(s) == s[Len(s)]

(***************************************************************************)
(* _find_best_allele                                                       *)
(***************************************************************************)
\* the numeric fields of a row all convert (lines 294-295 raise otherwise)
RowParses(row) ==
    /\ IsInt(row.qlen)
    /\ IsInt(row.length)
    /\ IsInt(row.gaps)
    /\ IsFloat(row.pident)

\* Length Score of a row, line 294
LengthScore(row) == IntOf[row.qlen] - IntOf[row.length] + IntOf[row.gaps]

\* line 276: Path(blast_file).exists()
PathExists_Always(file) == TRUE

PathExists(file) == file.exists

\* line 298: the row replaces the tracked best-by-identity hit
TrackByPident(best_by_pident, pident) ==
    \/ best_by_pident = None
    \/ pident > best_by_pident[2]

TrackByLS_NoTieBreak(best_by_ls, ls, pident) ==
    \/ best_by_ls = None
    \/ ls < best_by_ls[1]

\* lines 302-304: the row replaces the tracked best-by-LS hit
TrackByLS(best_by_ls, ls, pident) ==
    \/ best_by_ls = None
    \/ ls < best_by_ls[1]
    \/ (ls = best_by_ls[1] /\ pident > best_by_ls[2])

RECURSIVE ScanRows_SkipBadRow(_, _, _, _)
ScanRows_SkipBadRow(rows, i, best_by_ls, best_by_pident) ==
    IF i > Len(rows)
    THEN [raised |-> FALSE, best_by_ls |-> best_by_ls,
          best_by_pident |-> best_by_pident]
    ELSE LET row == rows[i]
             allele_num == Last(row.qseqid)
         IN  IF ~RowParses(row)
             THEN ScanRows_SkipBadRow(rows, i + 1, best_by_ls, best_by_pident)
             ELSE LET ls == LengthScore(row)
                      pident == FloatOf[row.pident]
                      hit == <<ls, pident, allele_num>>
                  IN  ScanRows_SkipBadRow(rows, i + 1,
                               IF TrackByLS(best_by_ls, ls, pident)
                               THEN hit ELSE best_by_ls,
                               IF TrackByPident(best_by_pident, pident)
                               THEN hit ELSE best_by_pident)

\* the loop of lines 290-305 from row i on; raised is the exception of a row
\* that does not convert
RECURSIVE ScanRows(_, _, _, _)
ScanRows(rows, i, best_by_ls, best_by_pident) ==
    IF i > Len(rows)
    THEN [raised |-> FALSE, best_by_ls |-> best_by_ls,
          best_by_pident |-> best_by_pident]
    ELSE LET row == rows[i]
             allele_num == Last(row.qseqid)
         IN  IF ~RowParses(row)
             THEN [raised |-> TRUE, best_by_ls |-> best_by_ls,
                   best_by_pident |-> best_by_pident]
             ELSE LET ls == LengthScore(row)
                      pident == FloatOf[row.pident]
                      hit == <<ls, pident, allele_num>>
                  IN  ScanRows(rows, i + 1,
                               IF TrackByLS(best_by_ls, ls, pident)
                               THEN hit ELSE best_by_ls,
                               IF TrackByPident(best_by_pident, pident)
                               THEN hit ELSE best_by_pident)

AllelesDiffer_ByHit(best_by_ls, best_by_pident) == best_by_ls # best_by_pident

\* line 308: the two trackers name different alleles, so the warning is logged
AllelesDiffer(best_by_ls, best_by_pident) == best_by_ls[3] # best_by_pident[3]

\* _find_best_allele of a file: ret is <<allele_num>> or None, warned is the
\* warning of lines 309-313, error the logged exception of line 318 (of
\* open() at line 280 or of a row that does not convert)
FindBestAllele(file) ==
    IF ~PathExists(file)
    THEN [ret |-> None, warned |-> FALSE, error |-> FALSE]
    ELSE IF ~file.exists
    THEN [ret |-> None, warned |-> FALSE, error |-> TRUE]
    ELSE LET scan == ScanRows(file.rows, 1, None, None)
         IN  IF scan.raised
             THEN [ret |-> None, warned |-> FALSE, error |-> TRUE]
             ELSE IF scan.best_by_ls # None /\ scan.best_by_pident # None
             THEN [ret |-> <<scan.best_by_ls[3]>>,
                   warned |-> AllelesDiffer(scan.best_by_ls, scan.best_by_pident),
                   error |-> FALSE]
             ELSE [ret |-> None, warned |-> FALSE, error |-> FALSE]

(***************************************************************************)
(* Names, paths and cells of the results table.                            *)
(***************************************************************************)
Loci == {"abc", "xyz"}

GenomeIds == {"G1", "G2"}

\* the locus names of the model in ascending order of Python's str comparison
NameOrder == <<"abc", "xyz", "zzz">>

Range(s) == {s[i] : i \in DOMAIN s}

Perms(S) == {s \in [1..Cardinality(S) -> S] :
                \A i, j \in 1..Cardinality(S) : i # j => s[i] # s[j]}

\* sorted(S) of a set of locus names
Sorted(S) == SelectSeq(NameOrder, LAMBDA n : n \in S)

\* the '_'-separated parts of the locus names and genome ids of the model
TokensOf == ("abc" :> <<"abc">>) @@ ("xyz" :> <<"xyz">>) @@ ("pas" :> <<"pas">>)
            @@ ("G1" :> <<"G1">>) @@ ("G2" :> <<"G2">>) @@ ("G_2" :> <<"G", "2">>)

OutputFile_LocusOnly(allele_name, genome_id) == TokensOf[allele_name] \o <<"vs">>

\* line 211: the path <allele_name>_vs_<genome_id>.tab in the output
\* directory, as the '_'-separated parts of its stem
OutputFile(allele_name, genome_id) ==
    TokensOf[allele_name] \o <<"vs">> \o TokensOf[genome_id]

Paths == {OutputFile(a, g) : a \in Loci, g \in GenomeIds}

\* cells of the DataFrame: NaN/None, a Python int, the string 'NEW'
NaN == [kind |-> "nan", val |-> 0]

IntCell(n) == [kind |-> "int", val |-> n]

NewST == [kind |-> "str", val |-> 0]

NotNa(cell) == cell.kind # "nan"

\* line 262: an all-NaN frame with the given index and columns
DataFrame(index, columns) ==
    [index |-> index, columns |-> columns,
     cell |-> [g \in Range(index) |-> [c \in Range(columns) |-> NaN]]]

NoFrame == DataFrame(<<>>, <<>>)

(***************************************************************************)
(* _run_blast_analysis and _run_parallel_commands                          *)
(***************************************************************************)
Commands_Paired(al, ge) ==
    [k \in 1..(IF Len(al) < Len(ge) THEN Len(al) ELSE Len(ge)) |->
        [query |-> al[k], subject |-> ge[k], out |-> OutputFile(al[k], ge[k])]]

\* lines 209-216: one command per allele_name and genome_id, alleles outermost
Commands(al, ge) ==
    [k \in 1..(Len(al) * Len(ge)) |->
        LET allele_name == al[((k - 1) \div Len(ge)) + 1]
            genome_id == ge[((k - 1) % Len(ge)) + 1]
        IN  [query |-> allele_name, subject |-> genome_id,
             out |-> OutputFile(allele_name, genome_id)]]

OutputFiles_KeyedByFirstAllele(cmds) ==
    [k \in DOMAIN cmds |->
        [key |-> <<cmds[k].subject, cmds[1].query>>, path |-> cmds[k].out]]

\* line 216: the items of output_files, keyed (genome_id, allele_name)
OutputFiles(cmds) ==
    [k \in DOMAIN cmds |->
        [key |-> <<cmds[k].subject, cmds[k].query>>, path |-> cmds[k].out]]

Queued == [state |-> "queued", returncode |-> 0, raised |-> FALSE]

Running == [state |-> "running", returncode |-> 0, raised |-> FALSE]

Done(returncode, raised) ==
    [state |-> "done", returncode |-> returncode, raised |-> raised]

\* a row of blastn's output for an allele of a locus
Hit(locus, allele, pident, length) ==
    [qseqid |-> <<locus, allele>>, pident |-> pident, qlen |-> "10",
     length |-> length, gaps |-> "0"]

\* what the subprocess of a command may leave behind: its exit status (or the
\* exception subprocess.run raised in the worker) and the file at its -out path
Outcomes(cmd) ==
    LET l == cmd.query
        one == File(<<Hit(l, "1", "100", "10")>>)
        two == File(<<Hit(l, "1", "100", "8"), Hit(l, "2", "95", "10")>>)
        odd == File(<<Hit(l, "x", "100", "10")>>)
    IN  {[result |-> Done(0, FALSE), file |-> f] :
            f \in {one, two, odd, File(<<>>), NoFile}}
        \cup {[result |-> Done(1, FALSE), file |-> f] : f \in {one, NoFile}}
        \cup {[result |-> Done(0, TRUE), file |-> NoFile]}

LogRecord(level, event, key) == [level |-> level, event |-> event, key |-> key]

\* lines 206-219 up to the submission of every command to the pool
RunBlastAnalysis ==
    /\ pc = "blast"
    /\ commands' = Commands(alleles, genomes)
    /\ output_files' = OutputFiles(commands')
    /\ results' = [k \in DOMAIN commands' |-> Queued]
    /\ waited' = 0
    /\ pc' = "wait"
    /\ UNCHANGED <<alleles, genomes, profile, processes, outdir, log, df,
                   writes, written, selector_vars, input_vars,
                   outdir_exists, exit_status, allele_keys>>

NumRunning == Cardinality({k \in DOMAIN results : results[k].state = "running"})

StartJob_Unbounded(k) ==
    /\ pc = "wait"
    /\ results[k].state = "queued"
    /\ \A j \in 1..(k - 1) : results[j].state # "queued"
    /\ results' = [results EXCEPT ![k] = Running]
    /\ UNCHANGED <<pc, alleles, genomes, profile, processes, commands,
                   output_files, waited, outdir, log, df, writes, written,
                   selector_vars, input_vars, outdir_exists,
                   exit_status, allele_keys>>

StartJob_FirstBatchOnly(k) ==
    /\ pc = "wait"
    /\ results[k].state = "queued"
    /\ \A j \in 1..(k - 1) : results[j].state # "queued"
    /\ \A j \in DOMAIN results : results[j].state # "done"
    /\ NumRunning < processes
    /\ results' = [results EXCEPT ![k] = Running]
    /\ UNCHANGED <<pc, alleles, genomes, profile, processes, commands,
                   output_files, waited, outdir, log, df, writes, written,
                   selector_vars, input_vars, outdir_exists,
                   exit_status, allele_keys>>

\* an idle worker of the pool takes the next task of the queue
StartJob(k) ==
    /\ pc = "wait"
    /\ results[k].state = "queued"
    /\ \A j \in 1..(k - 1) : results[j].state # "queued"
    /\ NumRunning < processes
    /\ results' = [results EXCEPT ![k] = Running]
    /\ UNCHANGED <<pc, alleles, genomes, profile, processes, commands,
                   output_files, waited, outdir, log, df, writes, written,
                   selector_vars, input_vars, outdir_exists,
                   exit_status, allele_keys>>

FinishJob_SharedOutput(k) ==
    /\ pc = "wait"
    /\ results[k].state = "running"
    /\ \E o \in Outcomes(commands[k]) :
        /\ results' = [results EXCEPT ![k] = o.result]
        /\ outdir' = [outdir EXCEPT ![commands[1].out] = o.file]
    /\ UNCHANGED <<pc, alleles, genomes, profile, processes, commands,
                   output_files, waited, log, df, writes, written,
                   selector_vars, input_vars, outdir_exists,
                   exit_status, allele_keys>>

\* subprocess.run of a command returns (or raises) in its worker
FinishJob(k) ==
    /\ pc = "wait"
    /\ results[k].state = "running"
    /\ \E o \in Outcomes(commands[k]) :
        /\ results' = [results EXCEPT ![k] = o.result]
        /\ outdir' = [outdir EXCEPT ![commands[k].out] = o.file]
    /\ UNCHANGED <<pc, alleles, genomes, profile, processes, commands,
                   output_files, waited, log, df, writes, written,
                   selector_vars, input_vars, outdir_exists,
                   exit_status, allele_keys>>

GetResult_Retry ==
    /\ pc = "wait"
    /\ waited < Len(commands)
    /\ LET k == waited + 1
           key == output_files[k].key
           failed == results[k].raised \/ results[k].returncode # 0
       IN  /\ results[k].state = "done"
           /\ log' = IF results[k].raised
                     THEN log \cup {LogRecord("ERROR", "command_error", key)}
                     ELSE IF results[k].returncode # 0
                     THEN log \cup {LogRecord("WARNING", "command_failed", key)}
                     ELSE log
           /\ waited' = IF failed THEN waited ELSE k
           /\ results' = IF failed THEN [results EXCEPT ![k] = Queued] ELSE results
    /\ UNCHANGED <<pc, alleles, genomes, profile, processes, commands,
                   output_files, outdir, df, writes, written,
                   selector_vars, input_vars, outdir_exists,
                   exit_status, allele_keys>>

\* lines 245-253: result.get() of the next command returns or raises
GetResult ==
    /\ pc = "wait"
    /\ waited < Len(commands)
    /\ LET k == waited + 1
           key == output_files[k].key
       IN  /\ results[k].state = "done"
           /\ log' = IF results[k].raised
                     THEN log \cup {LogRecord("ERROR", "command_error", key)}
                     ELSE IF results[k].returncode # 0
                     THEN log \cup {LogRecord("WARNING", "command_failed", key)}
                     ELSE log
           /\ waited' = k
    /\ UNCHANGED <<pc, alleles, genomes, profile, processes, commands,
                   output_files, results, outdir, df, writes, written,
                   selector_vars, input_vars, outdir_exists,
                   exit_status, allele_keys>>

ReturnBlastResults_NoWait ==
    /\ pc = "wait"
    /\ pc' = "process"
    /\ UNCHANGED <<alleles, genomes, profile, processes, commands,
                   output_files, results, waited, outdir, log, df, writes,
                   written, selector_vars, input_vars,
                   outdir_exists, exit_status, allele_keys>>

\* lines 254-255 and 221: the loop is over, the pool is closed, the call returns
ReturnBlastResults ==
    /\ pc = "wait"
    /\ waited = Len(commands)
    /\ pc' = "process"
    /\ UNCHANGED <<alleles, genomes, profile, processes, commands,
                   output_files, results, waited, outdir, log, df, writes,
                   written, selector_vars, input_vars,
                   outdir_exists, exit_status, allele_keys>>

(***************************************************************************)
(* _process_blast_results                                                  *)
(***************************************************************************)
\* what _find_best_allele logs for the file of a key
SelectorLog(r, key) ==
    (IF r.warned THEN {LogRecord("WARNING", "alleles_differ", key)} ELSE {})
    \cup (IF r.error THEN {LogRecord("ERROR", "processing_error", key)} ELSE {})

\* lines 267-270: the cell a best allele is stored as
BestMatchCell(ret) == IF ret # None THEN IntCell(IntOf[ret[1]]) ELSE NaN

RECURSIVE ProcessItems_RaiseOnMissing(_, _, _, _, _, _)
ProcessItems_RaiseOnMissing(items, i, fs, cell, wr, lg) ==
    IF i > Len(items)
    THEN [raised |-> FALSE, cell |-> cell, writes |-> wr, log |-> lg]
    ELSE LET key == items[i].key
             r == FindBestAllele(fs[items[i].path])
             lg2 == lg \cup SelectorLog(r, key)
         IN  IF ~fs[items[i].path].exists \/ (r.ret # None /\ ~IsInt(r.ret[1]))
             THEN [raised |-> TRUE, cell |-> cell, writes |-> wr, log |-> lg2]
             ELSE ProcessItems_RaiseOnMissing(items, i + 1, fs,
                      [cell EXCEPT ![key[1]][key[2]] = BestMatchCell(r.ret)],
                      [wr EXCEPT ![key] = @ + 1], lg2)

RECURSIVE ProcessItems_OddGivesNone(_, _, _, _, _, _)
ProcessItems_OddGivesNone(items, i, fs, cell, wr, lg) ==
    IF i > Len(items)
    THEN [raised |-> FALSE, cell |-> cell, writes |-> wr, log |-> lg]
    ELSE LET key == items[i].key
             r == FindBestAllele(fs[items[i].path])
             lg2 == lg \cup SelectorLog(r, key)
             best == IF r.ret # None /\ ~IsInt(r.ret[1]) THEN None ELSE r.ret
         IN  ProcessItems_OddGivesNone(items, i + 1, fs,
                 [cell EXCEPT ![key[1]][key[2]] = BestMatchCell(best)],
                 [wr EXCEPT ![key] = @ + 1], lg2)

\* the loop of lines 265-270 from item i on; raised is the ValueError of
\* int(best_allele) at line 268
RECURSIVE ProcessItems(_, _, _, _, _, _)
ProcessItems(items, i, fs, cell, wr, lg) ==
    IF i > Len(items)
    THEN [raised |-> FALSE, cell |-> cell, writes |-> wr, log |-> lg]
    ELSE LET key == items[i].key
             r == FindBestAllele(fs[items[i].path])
             lg2 == lg \cup SelectorLog(r, key)
         IN  IF r.ret # None /\ ~IsInt(r.ret[1])
             THEN [raised |-> TRUE, cell |-> cell, writes |-> wr, log |-> lg2]
             ELSE ProcessItems(items, i + 1, fs,
                      [cell EXCEPT ![key[1]][key[2]] = BestMatchCell(r.ret)],
                      [wr EXCEPT ![key] = @ + 1], lg2)

NoWrites == [key \in GenomeIds \X Loci |-> 0]

\* _process_blast_results; an exception leaves run_analysis and main exits 1
ProcessBlastResults ==
    /\ pc = "process"
    /\ LET frame == DataFrame(genomes, alleles \o <<"ST">>)
           p == ProcessItems(output_files, 1, outdir, frame.cell, NoWrites, log)
       IN  /\ log' = p.log
           /\ IF p.raised
              THEN /\ pc' = "aborted"
                   /\ exit_status' = <<1>>
                   /\ UNCHANGED <<df, writes>>
              ELSE /\ pc' = "assign"
                   /\ df' = [frame EXCEPT !.cell = p.cell]
                   /\ writes' = p.writes
                   /\ UNCHANGED exit_status
    /\ UNCHANGED <<alleles, genomes, profile, processes, commands,
                   output_files, results, waited, outdir, written,
                   selector_vars, input_vars, outdir_exists, allele_keys>>

(***************************************************************************)
(* _load_mlst_profiles and _assign_sequence_types                          *)
(***************************************************************************)
\* a profile table: whether open() succeeds, the header, and the rows as
\* csv.DictReader gives them (column -> text)
ProfileTable(header, rows) == [readable |-> TRUE, header |-> header, rows |-> rows]

Unreadable == [readable |-> FALSE, header |-> <<>>, rows |-> <<>>]

Genes_HeaderOrder(header) ==
    SelectSeq(header, LAMBDA n : n \notin {"ST", "clonal_complex"})

\* lines 361-362: the gene names of a row, sorted
Genes(header) == Sorted(Range(header) \ {"ST", "clonal_complex"})

\* line 366: ','.join of the cells of a row in gene order, kept as the tuple
\* of the joined texts (no cell of the model holds a comma)
ProfileKey(row, genes) == [k \in 1..Len(genes) |-> row[genes[k]]]

EmptyDict == [key \in {} |-> ""]

\* the loop of lines 358-367 from row i on: a later row of the same key
\* replaces the earlier one
RECURSIVE BuildProfiles(_, _, _, _)
BuildProfiles(rows, genes, i, profiles) ==
    IF i > Len(rows)
    THEN profiles
    ELSE BuildProfiles(rows, genes, i + 1,
             (ProfileKey(rows[i], genes) :> rows[i]["ST"]) @@ profiles)

\* _load_mlst_profiles: exit is sys.exit(1) of line 373; genes is None when
\* the table has no row
LoadMlstProfiles(pf) ==
    IF ~pf.readable
    THEN [exit |-> TRUE, genes |-> None, profiles |-> EmptyDict]
    ELSE IF Len(pf.rows) = 0
    THEN [exit |-> FALSE, genes |-> None, profiles |-> EmptyDict]
    ELSE IF "ST" \notin Range(pf.header)
    THEN [exit |-> TRUE, genes |-> None, profiles |-> EmptyDict]
    ELSE LET genes == Genes(pf.header)
         IN  [exit |-> FALSE, genes |-> <<genes>>,
              profiles |-> BuildProfiles(pf.rows, genes, 1, EmptyDict)]

\* str() of an allele number that the frame holds as a float
FloatStrOf == (0 :> "0.0") @@ (1 :> "1.0") @@ (2 :> "2.0") @@ (7 :> "7.0")
              @@ (8 :> "8.0") @@ (10 :> "10.0")

AlleleProfile_AsFloat(row, genes) ==
    [k \in 1..Len(genes) |->
        IF NotNa(row[genes[k]]) THEN FloatStrOf[row[genes[k]].val] ELSE "NA"]

\* lines 330-331: the allele profile of a row of the frame, 'NA' for a missing
\* value
AlleleProfile(row, genes) ==
    [k \in 1..Len(genes) |->
        IF NotNa(row[genes[k]]) THEN StrOf[row[genes[k]].val] ELSE "NA"]

\* line 336: the lookup of an allele profile in the dict
InProfiles(allele_profile, profiles) == allele_profile \in DOMAIN profiles

\* the loop of lines 328-342 from row i of the frame on; raised is the
\* KeyError of row[gene] or the ValueError of int(st)
RECURSIVE AssignRows(_, _, _, _, _)
AssignRows(index, i, cell, genes, profiles) ==
    IF i > Len(index)
    THEN [raised |-> FALSE, cell |-> cell]
    ELSE LET isolate_id == index[i]
             row == cell[isolate_id]
         IN  IF \E k \in 1..Len(genes) : genes[k] \notin DOMAIN row
             THEN [raised |-> TRUE, cell |-> cell]
             ELSE LET allele_profile == AlleleProfile(row, genes)
                  IN  IF InProfiles(allele_profile, profiles)
                      THEN IF ~IsInt(profiles[allele_profile])
                           THEN [raised |-> TRUE, cell |-> cell]
                           ELSE AssignRows(index, i + 1,
                                    [cell EXCEPT ![isolate_id]["ST"] =
                                        IntCell(IntOf[profiles[allele_profile]])],
                                    genes, profiles)
                      ELSE AssignRows(index, i + 1,
                               [cell EXCEPT ![isolate_id]["ST"] = NewST],
                               genes, profiles)

\* the order of sort_values on one column: ascending, missing values last
CellLess(a, b) ==
    /\ a.kind = "int"
    /\ \/ b.kind = "nan"
       \/ (b.kind = "int" /\ a.val < b.val)

\* row g sorts before row h on the gene columns, compared in order
RowLess(cell, genes, g, h) ==
    \E k \in 1..Len(genes) :
        /\ CellLess(cell[g][genes[k]], cell[h][genes[k]])
        /\ \A j \in 1..(k - 1) :
            ~CellLess(cell[h][genes[j]], cell[g][genes[j]])

RemoveAt(s, i) == [k \in 1..(Len(s) - 1) |-> IF k < i THEN s[k] ELSE s[k + 1]]

\* line 345: df.sort_values(list(genes)), rows of equal keys in their order
RECURSIVE SortValues(_, _, _)
SortValues(index, cell, genes) ==
    IF index = <<>>
    THEN <<>>
    ELSE LET Minimal(i) == \A j \in 1..Len(index) :
                               ~RowLess(cell, genes, index[j], index[i])
             m == CHOOSE i \in 1..Len(index) :
                      Minimal(i) /\ \A j \in 1..(i - 1) : ~Minimal(j)
         IN  <<index[m]>> \o SortValues(RemoveAt(index, m), cell, genes)

\* no key has been built: the keys of the profiles dict (line 366) and the
\* allele profile of each row of the frame (lines 330-331)
NoKeys == [profile |-> {}, genome |-> <<>>]

\* _assign_sequence_types: outcome is "exit" for sys.exit(1), "raise" for an
\* exception that leaves run_analysis, "ok" with the frame returned; keys are
\* the keys of the profiles dict and the allele profiles looked up in it
AssignSequenceTypesOf(frame, pf) ==
    LET loaded == LoadMlstProfiles(pf)
    IN  IF loaded.exit
        THEN [outcome |-> "exit", df |-> frame, keys |-> NoKeys]
        ELSE IF loaded.genes = None
        THEN [outcome |-> "raise", df |-> frame, keys |-> NoKeys]
        ELSE LET genes == loaded.genes[1]
                 a == AssignRows(frame.index, 1, frame.cell, genes,
                                 loaded.profiles)
             IN  IF a.raised \/ ~(Range(genes) \subseteq Range(frame.columns))
                 THEN [outcome |-> "raise", df |-> frame, keys |-> NoKeys]
                 ELSE [outcome |-> "ok",
                       df |-> [frame EXCEPT
                                 !.cell = a.cell,
                                 !.index = SortValues(frame.index, a.cell, genes)],
                       keys |-> [profile |-> DOMAIN loaded.profiles,
                                 genome |-> [g \in Range(frame.index) |->
                                     AlleleProfile(frame.cell[g], genes)]]]

AssignSequenceTypes ==
    /\ pc = "assign"
    /\ LET a == AssignSequenceTypesOf(df, profile)
       IN  IF a.outcome = "ok"
           THEN /\ pc' = "write"
                /\ df' = a.df
                /\ allele_keys' = a.keys
                /\ UNCHANGED exit_status
           ELSE /\ pc' = "aborted"
                /\ exit_status' = <<1>>
                /\ UNCHANGED <<df, allele_keys>>
    /\ UNCHANGED <<alleles, genomes, profile, processes, commands,
                   output_files, results, waited, outdir, log, writes,
                   written, selector_vars, input_vars, outdir_exists>>

(***************************************************************************)
(* _write_results                                                          *)
(***************************************************************************)
\* line 455: the default of --formats, split at the commas
Formats == <<"csv", "tab">>

\* lines 386-394: the formats a file is written for
KnownFormats == {"csv", "tab", "tsv", "excel", "xlsx", "xls"}

\* line 379: fmt.lower().strip() of the format texts of the model
LowerStrip == ("csv" :> "csv") @@ ("tab" :> "tab") @@ ("TSV" :> "tsv")
              @@ (" xlsx" :> "xlsx") @@ ("pdf" :> "pdf") @@ ("" :> "")

\* lines 383, 386-390: the suffix of the file MLST_results.<suffix> that a
\* known format is written to
OutputSuffix(fmt) == IF fmt \in {"excel", "xlsx", "xls"} THEN "xlsx" ELSE fmt

RECURSIVE WriteFormats_StopAtUnknown(_, _, _, _)
WriteFormats_StopAtUnknown(output_formats, i, wr, lg) ==
    IF i > Len(output_formats)
    THEN [written |-> wr, log |-> lg]
    ELSE LET fmt == output_formats[i]
         IN  IF fmt \in KnownFormats
             THEN WriteFormats_StopAtUnknown(output_formats, i + 1,
                      wr \cup {OutputSuffix(fmt)}, lg)
             ELSE [written |-> wr,
                   log |-> lg \cup {LogRecord("WARNING", "unknown_format", <<fmt>>)}]

\* the loop of lines 382-398 from format i on
RECURSIVE WriteFormats(_, _, _, _)
WriteFormats(output_formats, i, wr, lg) ==
    IF i > Len(output_formats)
    THEN [written |-> wr, log |-> lg]
    ELSE LET fmt == output_formats[i]
         IN  IF fmt \in KnownFormats
             THEN WriteFormats(output_formats, i + 1,
                      wr \cup {OutputSuffix(fmt)}, lg)
             ELSE WriteFormats(output_formats, i + 1, wr,
                      lg \cup {LogRecord("WARNING", "unknown_format", <<fmt>>)})

\* _write_results, after which run_analysis and main return
WriteResults ==
    /\ pc = "write"
    /\ LET output_formats == [k \in DOMAIN formats |-> LowerStrip[formats[k]]]
           w == WriteFormats(output_formats, 1, written, log)
       IN  /\ written' = w.written
           /\ log' = w.log
    /\ pc' = "done"
    /\ exit_status' = <<0>>
    /\ UNCHANGED <<alleles, genomes, profile, processes, commands,
                   output_files, results, waited, outdir, df, writes,
                   selector_vars, input_vars, outdir_exists, allele_keys>>

(***************************************************************************)
(* _get_fasta_files, _load_alleles, _load_genomes, _create_output_directory *)
(***************************************************************************)
\* a directory: whether the path exists, and its entries in the order
\* iterdir() yields them
Directory(files) == [exists |-> TRUE, files |-> files]

NoDirectory == [exists |-> FALSE, files |-> <<>>]

\* a file of a directory: the stem and the suffix of its name, whether
\* SeqIO.parse reads it without raising, and the ids of its records, each the
\* sequence of its '_'-separated tokens
FastaFile(stem, suffix, parses, ids) ==
    [stem |-> stem, suffix |-> suffix, parses |-> parses, ids |-> ids]

\* line 178: suffix.lower() of the suffixes of the model
LowerOf == (".fasta" :> ".fasta") @@ (".FAS" :> ".fas") @@ (".fna" :> ".fna")
           @@ (".fa" :> ".fa") @@ (".txt" :> ".txt")

\* line 174
Extensions == {".fasta", ".fas", ".fna", ".fa"}

GetFastaFiles_MissingAsEmpty(directory) ==
    [raised |-> FALSE,
     files |-> SelectSeq(directory.files,
                         LAMBDA f : LowerOf[f.suffix] \in Extensions)]

\* _get_fasta_files: raised is the FileNotFoundError of line 172
GetFastaFiles(directory) ==
    IF ~directory.exists
    THEN [raised |-> TRUE, files |-> <<>>]
    ELSE [raised |-> FALSE,
          files |-> SelectSeq(directory.files,
                              LAMBDA f : LowerOf[f.suffix] \in Extensions)]

\* line 128: the first '_'-separated token of the id of the first record
GeneName(ids) == ids[1][1]

\* line 157: stem.replace("|", "_").replace(" ", "_") of the stems of the model
IsolateIdOf == ("G1" :> "G1") @@ ("G2" :> "G2") @@ ("G 2" :> "G_2")
               @@ ("G|2" :> "G_2")

\* d[key] = value on the keys of a dict: a new key goes last, a key the dict
\* holds keeps its place
SetItem(keys, key) == IF key \in Range(keys) THEN keys ELSE Append(keys, key)

\* the loop of lines 122-134 from file i on; exit is sys.exit(1) of line 134
RECURSIVE LoadAllelesFrom(_, _, _)
LoadAllelesFrom(fasta_files, i, keys) ==
    IF i > Len(fasta_files)
    THEN [exit |-> FALSE, keys |-> keys]
    ELSE IF ~fasta_files[i].parses
    THEN [exit |-> TRUE, keys |-> keys]
    ELSE IF fasta_files[i].ids = <<>>
    THEN LoadAllelesFrom(fasta_files, i + 1, keys)
    ELSE LoadAllelesFrom(fasta_files, i + 1,
                         SetItem(keys, GeneName(fasta_files[i].ids)))

\* _load_alleles
LoadAlleles ==
    /\ pc = "load_alleles"
    /\ LET found == GetFastaFiles(indir)
           loaded == LoadAllelesFrom(found.files, 1, <<>>)
       IN  IF found.raised \/ loaded.exit
           THEN /\ pc' = "aborted"
                /\ exit_status' = <<1>>
                /\ log' = log \cup {LogRecord("ERROR", "load_alleles", <<>>)}
                /\ UNCHANGED alleles
           ELSE /\ pc' = "load_genomes"
                /\ alleles' = loaded.keys
                /\ UNCHANGED <<exit_status, log>>
    /\ UNCHANGED <<genomes, profile, processes, commands, output_files,
                   results, waited, outdir, df, writes, written,
                   selector_vars, input_vars, outdir_exists, allele_keys>>

\* the loop of lines 150-163 from file i on; exit is sys.exit(1) of line 163
RECURSIVE LoadGenomesFrom(_, _, _)
LoadGenomesFrom(fasta_files, i, keys) ==
    IF i > Len(fasta_files)
    THEN [exit |-> FALSE, keys |-> keys]
    ELSE IF ~fasta_files[i].parses
    THEN [exit |-> TRUE, keys |-> keys]
    ELSE IF fasta_files[i].ids = <<>>
    THEN LoadGenomesFrom(fasta_files, i + 1, keys)
    ELSE LoadGenomesFrom(fasta_files, i + 1,
                         SetItem(keys, IsolateIdOf[fasta_files[i].stem]))

\* _load_genomes
LoadGenomes ==
    /\ pc = "load_genomes"
    /\ LET found == GetFastaFiles(genomedir)
           loaded == LoadGenomesFrom(found.files, 1, <<>>)
       IN  IF found.raised \/ loaded.exit
           THEN /\ pc' = "aborted"
                /\ exit_status' = <<1>>
                /\ log' = log \cup {LogRecord("ERROR", "load_genomes", <<>>)}
                /\ UNCHANGED genomes
           ELSE /\ pc' = "create_outdir"
                /\ genomes' = loaded.keys
                /\ UNCHANGED <<exit_status, log>>
    /\ UNCHANGED <<alleles, profile, processes, commands, output_files,
                   results, waited, outdir, df, writes, written,
                   selector_vars, input_vars, outdir_exists, allele_keys>>

\* the output directory holds no file
EmptyDirectory == [path \in Paths |-> NoFile]

CreateOutputDirectory_IgnoreExisting ==
    /\ pc = "create_outdir"
    /\ outdir' = EmptyDirectory
    /\ outdir_exists' = TRUE
    /\ pc' = "blast"
    /\ UNCHANGED <<alleles, genomes, profile, processes, commands,
                   output_files, results, waited, log, df, writes, written,
                   selector_vars, input_vars, allele_keys, exit_status>>

CreateOutputDirectory_KeepContents ==
    /\ pc = "create_outdir"
    /\ IF outdir_exists /\ ~force
       THEN /\ pc' = "aborted"
            /\ exit_status' = <<1>>
            /\ log' = log \cup {LogRecord("ERROR", "outdir_exists", <<>>)}
            /\ UNCHANGED <<outdir, outdir_exists>>
       ELSE /\ outdir_exists' = TRUE
            /\ pc' = "blast"
            /\ log' = IF outdir_exists
                      THEN log \cup {LogRecord("INFO", "removing_outdir", <<>>)}
                      ELSE log
            /\ UNCHANGED <<outdir, exit_status>>
    /\ UNCHANGED <<alleles, genomes, profile, processes, commands,
                   output_files, results, waited, df, writes, written,
                   selector_vars, input_vars, allele_keys>>

\* _create_output_directory: an existing directory stops the run unless
\* --force is given and is removed if it is; mkdir creates the directory or
\* raises
CreateOutputDirectory ==
    /\ pc = "create_outdir"
    /\ IF outdir_exists /\ ~force
       THEN /\ pc' = "aborted"
            /\ exit_status' = <<1>>
            /\ log' = log \cup {LogRecord("ERROR", "outdir_exists", <<>>)}
            /\ UNCHANGED <<outdir, outdir_exists>>
       ELSE \E created \in BOOLEAN :
            LET removed == IF outdir_exists
                           THEN {LogRecord("INFO", "removing_outdir", <<>>)}
                           ELSE {}
            IN  /\ outdir' = EmptyDirectory
                /\ outdir_exists' = created
                /\ pc' = IF created THEN "blast" ELSE "aborted"
                /\ exit_status' = IF created THEN exit_status ELSE <<1>>
                /\ log' = IF created
                          THEN log \cup removed
                          ELSE log \cup removed
                                   \cup {LogRecord("ERROR", "create_outdir", <<>>)}
    /\ UNCHANGED <<alleles, genomes, profile, processes, commands,
                   output_files, results, waited, df, writes, written,
                   selector_vars, input_vars, allele_keys>>

\* the files of the locus directories of the model: two loci, a second file
\* of locus abc, a file of the locus pas_cpn, whose name holds an underscore,
\* a file without records, a file that is no FASTA file by its name, and a
\* file SeqIO.parse raises on
AbcFile == FastaFile("abc", ".fasta", TRUE, << <<"abc", "1">>, <<"abc", "2">> >>)

XyzFile == FastaFile("xyz", ".FAS", TRUE, << <<"xyz", "1">> >>)

LocusFiles ==
    { AbcFile, XyzFile,
      FastaFile("more", ".fa", TRUE, << <<"abc", "3">> >>),
      FastaFile("pas_cpn", ".fasta", TRUE, << <<"pas", "cpn", "1">> >>),
      FastaFile("empty", ".fna", TRUE, <<>>),
      FastaFile("notes", ".txt", TRUE, << <<"xyz", "2">> >>),
      FastaFile("bad", ".fasta", FALSE, <<>>) }

\* a genome file of one contig
GenomeFile(stem, suffix) == FastaFile(stem, suffix, TRUE, << <<"contig", "1">> >>)

\* the files of the genome directories of the model: two of the stems differ
\* in a character that line 157 replaces
GenomeFiles ==
    { GenomeFile("G1", ".fasta"), GenomeFile("G 2", ".fna"),
      GenomeFile("G|2", ".fa"),
      FastaFile("empty", ".fasta", TRUE, <<>>),
      FastaFile("bad", ".fa", FALSE, <<>>) }

(***************************************************************************)
(* run_analysis from _run_blast_analysis on: the loci and genomes are      *)
(* loaded and the output directory is newly created.                       *)
(***************************************************************************)
Row(abc, xyz, st) == ("abc" :> abc) @@ ("xyz" :> xyz) @@ ("ST" :> st)

\* the profile tables of the pipeline runs
Profiles ==
    { ProfileTable(<<"ST", "abc", "xyz">>,
                   <<Row("1", "1", "7"), Row("2", "1", "10")>>),
      ProfileTable(<<"ST", "xyz", "abc">>,
                   <<Row("1", "NA", "8"), Row("2", "2", "7")>>),
      ProfileTable(<<"ST", "abc", "xyz">>, <<>>),
      Unreadable }

Init ==
    /\ pc = "blast"
    /\ alleles \in Perms(Loci)
    /\ genomes \in Perms(GenomeIds)
    /\ profile \in Profiles
    /\ processes \in 1..MaxProcesses
    /\ commands = <<>>
    /\ output_files = <<>>
    /\ results = <<>>
    /\ waited = 0
    /\ outdir = EmptyDirectory
    /\ log = {}
    /\ df = NoFrame
    /\ writes = NoWrites
    /\ written = {}
    /\ indir = Directory([k \in DOMAIN alleles |->
                              IF alleles[k] = "abc" THEN AbcFile ELSE XyzFile])
    /\ genomedir = Directory([k \in DOMAIN genomes |->
                                  GenomeFile(genomes[k], ".fasta")])
    /\ force = FALSE
    /\ formats = Formats
    /\ outdir_exists = TRUE
    /\ exit_status = None
    /\ allele_keys = NoKeys
    /\ blast_file = NoFile
    /\ best_allele = None

Next ==
    \/ RunBlastAnalysis
    \/ \E k \in 1..(Cardinality(Loci) * Cardinality(GenomeIds)) :
        \/ (k \in DOMAIN results /\ StartJob(k))
        \/ (k \in DOMAIN results /\ FinishJob(k))
    \/ GetResult
    \/ ReturnBlastResults
    \/ ProcessBlastResults
    \/ AssignSequenceTypes
    \/ WriteResults

Spec == Init /\ [][Next]_vars

\* a step of the main process or of a worker of the pool
ProgramStep ==
    \/ RunBlastAnalysis
    \/ \E k \in 1..(Cardinality(Loci) * Cardinality(GenomeIds)) :
        k \in DOMAIN results /\ StartJob(k)
    \/ GetResult
    \/ ReturnBlastResults
    \/ ProcessBlastResults
    \/ AssignSequenceTypes
    \/ WriteResults

\* the subprocess of a running job exits
SubprocessExits ==
    \E k \in 1..(Cardinality(Loci) * Cardinality(GenomeIds)) :
        k \in DOMAIN results /\ FinishJob(k)

\* the runs on one locus and two genomes: two jobs, with a profile table of
\* that locus or one that cannot be read
InitLive ==
    /\ pc = "blast"
    /\ alleles = <<"abc">>
    /\ genomes \in Perms(GenomeIds)
    /\ profile \in {ProfileTable(<<"ST", "abc">>,
                                  <<("abc" :> "1") @@ ("ST" :> "7")>>),
                     Unreadable}
    /\ processes \in 1..MaxProcesses
    /\ commands = <<>>
    /\ output_files = <<>>
    /\ results = <<>>
    /\ waited = 0
    /\ outdir = EmptyDirectory
    /\ log = {}
    /\ df = NoFrame
    /\ writes = NoWrites
    /\ written = {}
    /\ indir = Directory(<<AbcFile>>)
    /\ genomedir = Directory([k \in DOMAIN genomes |->
                                  GenomeFile(genomes[k], ".fasta")])
    /\ force = FALSE
    /\ formats = Formats
    /\ outdir_exists = TRUE
    /\ exit_status = None
    /\ allele_keys = NoKeys
    /\ blast_file = NoFile
    /\ best_allele = None

\* these runs when the main process and the workers keep running and every
\* subprocess eventually exits
SpecLive ==
    InitLive /\ [][Next]_vars /\ WF_vars(ProgramStep) /\ WF_vars(SubprocessExits)

(***************************************************************************)
(* The selector on every job output of at most MaxHits rows.               *)
(***************************************************************************)
QueryIds == {<<"abc", "1">>, <<"abc", "2">>}

\* rows as blastn writes them
GoodRows == [qseqid : QueryIds, pident : {"95", "100"}, qlen : {"10"},
             length : {"10", "8"}, gaps : {"0", "2"}]

\* the restval of csv.DictReader for a field the row is too short for:
\* Python's None, on which int() and float() raise TypeError
Missing == "None"

GoodRow == [qseqid |-> <<"abc", "1">>, pident |-> "100", qlen |-> "10",
            length |-> "10", gaps |-> "0"]

\* rows with one numeric field that is no number, and a row of the two
\* columns qseqid and sseqid only
BadRows ==
    { [GoodRow EXCEPT !.qlen = "n/a"], [GoodRow EXCEPT !.length = "n/a"],
      [GoodRow EXCEPT !.gaps = "n/a"], [GoodRow EXCEPT !.pident = "n/a"],
      [GoodRow EXCEPT !.pident = Missing, !.qlen = Missing,
                      !.length = Missing, !.gaps = Missing] }

Rows == GoodRows \cup BadRows

SeqsUpTo(S, n) == UNION {[1..k -> S] : k \in 0..n}

BlastFiles == {NoFile} \cup {File(rows) : rows \in SeqsUpTo(Rows, MaxHits)}

\* no run of the pipeline is under way
NoRun ==
    /\ pc = "idle"
    /\ alleles = <<>>
    /\ genomes = <<>>
    /\ profile = Unreadable
    /\ processes = 1
    /\ commands = <<>>
    /\ output_files = <<>>
    /\ results = <<>>
    /\ waited = 0
    /\ outdir = [path \in Paths |-> NoFile]
    /\ log = {}
    /\ df = NoFrame
    /\ writes = NoWrites
    /\ written = {}
    /\ indir = NoDirectory
    /\ genomedir = NoDirectory
    /\ force = FALSE
    /\ formats = Formats
    /\ outdir_exists = FALSE
    /\ exit_status = None
    /\ allele_keys = NoKeys

InitSel ==
    /\ NoRun
    /\ blast_file \in BlastFiles
    /\ best_allele = None

CallFindBestAllele ==
    /\ best_allele = None
    /\ best_allele' = <<FindBestAllele(blast_file)>>
    /\ UNCHANGED <<blast_file, pipeline_vars>>

NextSel == CallFindBestAllele

SpecSel == InitSel /\ [][NextSel]_vars

(***************************************************************************)
(* The selection rule stated on the hit list.                              *)
(***************************************************************************)
AllParse(rows) == \A i \in DOMAIN rows : RowParses(rows[i])

Allele(rows, i) == Last(rows[i].qseqid)

Pident(rows, i) == FloatOf[rows[i].pident]

\* hit i has the least Length Score of the list
MinLS(rows, i) ==
    \A j \in DOMAIN rows : LengthScore(rows[i]) <= LengthScore(rows[j])

\* hit i has the least Length Score and, among those, the highest identity
BestOfMinLS(rows, i) ==
    /\ MinLS(rows, i)
    /\ \A j \in DOMAIN rows : MinLS(rows, j) => Pident(rows, j) <= Pident(rows, i)

MaxPident(rows, i) == \A j \in DOMAIN rows : Pident(rows, j) <= Pident(rows, i)

\* the first hit of the list that is best by LS, and the first of highest
\* identity: the hits a scan of the list in order keeps
LSMinimalHit(rows) ==
    CHOOSE i \in DOMAIN rows :
        BestOfMinLS(rows, i) /\ \A j \in 1..(i - 1) : ~BestOfMinLS(rows, j)

PidentMaximalHit(rows) ==
    CHOOSE i \in DOMAIN rows :
        MaxPident(rows, i) /\ \A j \in 1..(i - 1) : ~MaxPident(rows, j)

\* _find_best_allele has been called on a non-empty list of well-formed hits
SelectedFromHits ==
    /\ best_allele # None
    /\ blast_file.exists
    /\ Len(blast_file.rows) > 0
    /\ AllParse(blast_file.rows)

\* C1: for every non-empty hit list, _find_best_allele returns the allele
\* number of a hit whose Length Score is minimal over the list and whose
\* percent identity is highest among the hits of minimal Length Score; a
\* hit of lower LS wins over one of higher LS whatever the identities are.
C1_MinimalLSThenIdentity ==
    SelectedFromHits =>
        \E i \in DOMAIN blast_file.rows :
            /\ BestOfMinLS(blast_file.rows, i)
            /\ best_allele[1].ret = <<Allele(blast_file.rows, i)>>

\* two hits of different alleles, the second of lower LS and lower identity,
\* and the second one's allele was returned
C1_Witness ==
    /\ SelectedFromHits
    /\ Len(blast_file.rows) = 2
    /\ LengthScore(blast_file.rows[2]) < LengthScore(blast_file.rows[1])
    /\ Pident(blast_file.rows, 2) < Pident(blast_file.rows, 1)
    /\ Allele(blast_file.rows, 1) # Allele(blast_file.rows, 2)
    /\ best_allele[1].ret = <<Allele(blast_file.rows, 2)>>

\* C5: for an empty hit list (an output file with no rows, or no output
\* file at all) the selector returns None and no exception is raised or
\* logged.
C5_EmptyListGivesNone ==
    (best_allele # None /\ (~blast_file.exists \/ blast_file.rows = <<>>)) =>
        /\ best_allele[1].ret = None
        /\ ~best_allele[1].error
        /\ ~best_allele[1].warned

\* the selector was called on a path with no file and returned None
C5_Witness ==
    /\ best_allele # None
    /\ ~blast_file.exists
    /\ best_allele[1].ret = None

\* C10: the warning is logged exactly when the LS-minimal hit and the
\* percent-identity-maximal hit name different alleles; in either case the
\* allele of the LS-minimal hit is returned and no exception is raised.
C10_WarningIffAllelesDiffer ==
    SelectedFromHits =>
        LET rows == blast_file.rows
            byLS == Allele(rows, LSMinimalHit(rows))
            byId == Allele(rows, PidentMaximalHit(rows))
        IN  /\ best_allele[1].warned <=> (byLS # byId)
            /\ best_allele[1].ret = <<byLS>>
            /\ ~best_allele[1].error

\* a list whose LS-minimal and identity-maximal hits name different alleles:
\* the warning was logged and the LS-minimal allele returned
C10_Witness ==
    /\ SelectedFromHits
    /\ Allele(blast_file.rows, LSMinimalHit(blast_file.rows))
         # Allele(blast_file.rows, PidentMaximalHit(blast_file.rows))
    /\ best_allele[1].warned
    /\ best_allele[1].ret = <<Allele(blast_file.rows, LSMinimalHit(blast_file.rows))>>

(***************************************************************************)
(* The resolver on every results frame of two genomes and every profile    *)
(* table of at most MaxRows rows, one row per allele combination.          *)
(***************************************************************************)
CellTexts == {"1", "2", "NA"}

STTexts == {"7", "10"}

ProfileRows == {Row(a, x, st) : a \in CellTexts, x \in CellTexts, st \in STTexts}

\* no two rows of the table hold the same allele combination
OneRowPerCombination(rows) ==
    \A i, j \in DOMAIN rows :
        i # j => ~(rows[i]["abc"] = rows[j]["abc"] /\ rows[i]["xyz"] = rows[j]["xyz"])

\* tables that break the resolver off: no ST column, a locus that was not
\* loaded, an ST that is no integer
OddTables ==
    { Unreadable,
      ProfileTable(<<"abc", "xyz">>, <<("abc" :> "1") @@ ("xyz" :> "1")>>),
      ProfileTable(<<"ST", "abc", "zzz">>,
                   <<("abc" :> "1") @@ ("zzz" :> "1") @@ ("ST" :> "7")>>),
      ProfileTable(<<"ST", "abc", "xyz">>, <<Row("1", "1", "new")>>) }

\* the columns of the profile table in two orders, as csv.DictReader reads
\* them from the header line
Headers == {<<"ST", "abc", "xyz">>, <<"xyz", "ST", "abc">>}

ProfileTables ==
    {ProfileTable(header, rows) :
        header \in Headers,
        rows \in {r \in SeqsUpTo(ProfileRows, MaxRows) : OneRowPerCombination(r)}}
    \cup OddTables

BestMatches == {NaN, IntCell(1), IntCell(2)}

\* the frames _process_blast_results returns for the loci abc, xyz and the
\* genomes G1, G2
Frames ==
    {[index |-> <<"G1", "G2">>, columns |-> <<"abc", "xyz", "ST">>,
      cell |-> [g \in GenomeIds |->
                  ("abc" :> m[g][1]) @@ ("xyz" :> m[g][2]) @@ ("ST" :> NaN)]] :
        m \in [GenomeIds -> BestMatches \X BestMatches]}

InitST ==
    /\ pc = "assign"
    /\ alleles = <<"abc", "xyz">>
    /\ genomes = <<"G1", "G2">>
    /\ profile \in ProfileTables
    /\ df \in Frames
    /\ processes = 1
    /\ commands = <<>>
    /\ output_files = <<>>
    /\ results = <<>>
    /\ waited = 0
    /\ outdir = EmptyDirectory
    /\ log = {}
    /\ writes = NoWrites
    /\ written = {}
    /\ indir = Directory(<<AbcFile, XyzFile>>)
    /\ genomedir = Directory(<<GenomeFile("G1", ".fasta"),
                               GenomeFile("G2", ".fasta")>>)
    /\ force = FALSE
    /\ formats = Formats
    /\ outdir_exists = TRUE
    /\ exit_status = None
    /\ allele_keys = NoKeys
    /\ blast_file = NoFile
    /\ best_allele = None

NextST == AssignSequenceTypes

SpecST == InitST /\ [][NextST]_vars

(***************************************************************************)
(* run_analysis from _load_alleles up to the submission of the jobs, on    *)
(* every locus and genome directory of at most MaxFiles entries, in every  *)
(* order of enumeration, with and without an output directory and --force. *)
(***************************************************************************)
\* the sequences of at most n distinct elements of S
Listings(S, n) ==
    {s \in SeqsUpTo(S, n) : \A i, j \in DOMAIN s : i # j => s[i] # s[j]}

LocusDirectories ==
    {NoDirectory} \cup {Directory(fs) : fs \in Listings(LocusFiles, MaxFiles)}

GenomeDirectories ==
    {NoDirectory} \cup {Directory(fs) : fs \in Listings(GenomeFiles, MaxFiles)}

\* an output directory that holds a job output of an earlier run
StaleDirectory ==
    [EmptyDirectory EXCEPT
        ![OutputFile("abc", "G1")] = File(<<Hit("abc", "1", "100", "10")>>)]

InitLoad ==
    /\ pc = "load_alleles"
    /\ alleles = <<>>
    /\ genomes = <<>>
    /\ profile = ProfileTable(<<"ST", "abc", "xyz">>, <<Row("1", "1", "7")>>)
    /\ processes = 1
    /\ commands = <<>>
    /\ output_files = <<>>
    /\ results = <<>>
    /\ waited = 0
    /\ outdir_exists \in BOOLEAN
    /\ outdir \in IF outdir_exists
                  THEN {EmptyDirectory, StaleDirectory}
                  ELSE {EmptyDirectory}
    /\ log = {}
    /\ df = NoFrame
    /\ writes = NoWrites
    /\ written = {}
    /\ indir \in LocusDirectories
    /\ genomedir \in GenomeDirectories
    /\ force \in BOOLEAN
    /\ formats = Formats
    /\ exit_status = None
    /\ allele_keys = NoKeys
    /\ blast_file = NoFile
    /\ best_allele = None

NextLoad ==
    \/ LoadAlleles
    \/ LoadGenomes
    \/ CreateOutputDirectory
    \/ RunBlastAnalysis

SpecLoad == InitLoad /\ [][NextLoad]_vars

(***************************************************************************)
(* _write_results on every --formats list of at most MaxFormats entries.   *)
(***************************************************************************)
FormatTexts == DOMAIN LowerStrip

InitWrite ==
    /\ pc = "write"
    /\ alleles = <<"abc", "xyz">>
    /\ genomes = <<"G1", "G2">>
    /\ profile = ProfileTable(<<"ST", "abc", "xyz">>, <<Row("1", "1", "7")>>)
    /\ processes = 1
    /\ commands = <<>>
    /\ output_files = <<>>
    /\ results = <<>>
    /\ waited = 0
    /\ outdir = EmptyDirectory
    /\ outdir_exists = TRUE
    /\ log = {}
    /\ \E frame \in Frames :
        /\ df = AssignSequenceTypesOf(frame, profile).df
        /\ allele_keys = AssignSequenceTypesOf(frame, profile).keys
    /\ writes = NoWrites
    /\ written = {}
    /\ indir = Directory(<<AbcFile, XyzFile>>)
    /\ genomedir = Directory(<<GenomeFile("G1", ".fasta"),
                               GenomeFile("G2", ".fasta")>>)
    /\ force = FALSE
    /\ formats \in SeqsUpTo(FormatTexts, MaxFormats) \ {<<>>}
    /\ exit_status = None
    /\ blast_file = NoFile
    /\ best_allele = None

NextWrite == WriteResults

SpecWrite == InitWrite /\ [][NextWrite]_vars

(***************************************************************************)
(* The resolver's claims, on the state _assign_sequence_types leaves.      *)
(***************************************************************************)
\* the profile table has rows and exactly the loaded loci as gene columns
ProfileOfLoadedLoci ==
    /\ profile.readable
    /\ "ST" \in Range(profile.header)
    /\ Range(profile.header) \ {"ST", "clonal_complex"} = Range(alleles)

\* genome g has an allele number at every locus, and row r of the profile
\* table holds exactly these numbers
MatchesRow(g, r) ==
    \A l \in Range(alleles) :
        /\ df.cell[g][l].kind = "int"
        /\ StrOf[df.cell[g][l].val] = profile.rows[r][l]

\* genome g has at least one locus with no match
HasMissingLocus(g) == \E l \in Range(alleles) : df.cell[g][l].kind = "nan"

\* C2: every genome whose allele numbers equal the allele combination of a
\* row of the profile table is assigned that row's ST, as an integer.
C2_ExactMatchGetsRowST ==
    (pc # "assign" /\ ProfileOfLoadedLoci) =>
        \A g \in Range(genomes) : \A r \in DOMAIN profile.rows :
            (MatchesRow(g, r) /\ IsInt(profile.rows[r]["ST"])) =>
                /\ pc = "write"
                /\ df.cell[g]["ST"] = IntCell(IntOf[profile.rows[r]["ST"]])

\* G1 matches the second row of a two-row table and has its ST, G2 matches
\* no row and is NEW
C2_Witness ==
    /\ pc = "write"
    /\ ProfileOfLoadedLoci
    /\ Len(profile.rows) = 2
    /\ MatchesRow("G1", 2)
    /\ df.cell["G1"]["ST"] = IntCell(IntOf[profile.rows[2]["ST"]])
    /\ profile.rows[1]["ST"] # profile.rows[2]["ST"]
    /\ df.cell["G2"]["ST"].kind = "str"

\* C3: every genome with at least one locus without a match is assigned
\* "NEW", whatever the profile table holds.
C3_MissingLocusGivesNEW ==
    pc = "write" =>
        \A g \in Range(genomes) :
            HasMissingLocus(g) => df.cell[g]["ST"] = NewST

\* C4: a genome is assigned a sequence type other than "NEW" only if some
\* row of the profile table holds, at every locus, exactly the allele number
\* the genome has there.
C4_STOnlyFromExactRow ==
    (pc = "write" /\ ProfileOfLoadedLoci) =>
        \A g \in Range(genomes) :
            df.cell[g]["ST"].kind = "int" =>
                \E r \in DOMAIN profile.rows : MatchesRow(g, r)

\* the names of a list are in ascending order of Python's str comparison
Ascending(order) ==
    \A i, j \in DOMAIN order :
        i < j => \E m, n \in DOMAIN NameOrder :
                    m < n /\ NameOrder[m] = order[i] /\ NameOrder[n] = order[j]

\* the text of a cell of the frame in an allele profile
CellText(cell) == IF cell.kind = "int" THEN StrOf[cell.val] ELSE "NA"

\* C11: the key of every row of the profile table and the key of every
\* genome are built over one and the same list of the table's locus names,
\* in ascending order, whatever the order of the table's columns.
C11_SameSortedLocusOrder ==
    pc = "write" =>
        \E order \in Perms(Range(profile.header) \ {"ST", "clonal_complex"}) :
            /\ Ascending(order)
            /\ allele_keys.profile =
                  {[k \in DOMAIN order |-> profile.rows[r][order[k]]] :
                      r \in DOMAIN profile.rows}
            /\ \A g \in Range(genomes) :
                  allele_keys.genome[g] =
                      [k \in DOMAIN order |-> CellText(df.cell[g][order[k]])]

\* the table's locus columns are in descending order and the frame's in
\* ascending order, G1 has allele 1 of abc and allele 2 of xyz, and its key
\* "1,2" is a key of the table
C11_Witness ==
    /\ pc = "write"
    /\ profile.header = <<"xyz", "ST", "abc">>
    /\ df.columns = <<"abc", "xyz", "ST">>
    /\ df.cell["G1"]["abc"] = IntCell(1)
    /\ df.cell["G1"]["xyz"] = IntCell(2)
    /\ allele_keys.genome["G1"] = <<"1", "2">>
    /\ <<"1", "2">> \in allele_keys.profile
    /\ df.cell["G1"]["ST"].kind = "int"

\* C18: the resolver breaks the run off only when the profile table is
\* unreadable or malformed (no header, no ST column); on every readable
\* table with a header and an ST column, here one whose locus columns are
\* the loaded loci and whose STs are integers, every genome is assigned an
\* integer ST or "NEW" and the run goes on to write the table.
C18_ResolverAbortsOnlyOnMalformed ==
    (/\ pc # "assign"
     /\ ProfileOfLoadedLoci
     /\ profile.header # <<>>
     /\ \A r \in DOMAIN profile.rows : IsInt(profile.rows[r]["ST"])) =>
        /\ pc = "write"
        /\ \A g \in Range(genomes) :
              \/ df.cell[g]["ST"].kind = "int"
              \/ df.cell[g]["ST"] = NewST

(***************************************************************************)
(* The scheduler's and the result table's claims, on the pipeline.         *)
(***************************************************************************)
\* a downstream step has started: _run_blast_analysis has returned
Downstream == pc \in {"process", "assign", "write", "done", "aborted"}

\* job k failed: its subprocess exited nonzero or raised, or left no output
JobFailed(k) ==
    /\ results[k].state = "done"
    /\ \/ results[k].raised
       \/ results[k].returncode # 0
       \/ ~outdir[commands[k].out].exists

\* C6: no downstream step starts before every one of the submitted jobs,
\* one per locus and genome, has completed, successfully or not.
C6_Barrier ==
    Downstream =>
        /\ Len(commands) = Len(alleles) * Len(genomes)
        /\ \A k \in DOMAIN commands : results[k].state = "done"

\* processing starts after a run in which one job failed and one succeeded
C6_Witness ==
    /\ pc = "process"
    /\ \E k \in DOMAIN commands : results[k].returncode # 0
    /\ \E k \in DOMAIN commands : ~JobFailed(k)

\* C7: when the subprocess of a job exits nonzero, the failure is logged as
\* a warning, and when it exits nonzero or the job's output file is missing,
\* the (locus, genome) pair of the job has BestMatch none.
C7_FailedJobGivesNoHits ==
    df # NoFrame =>
        \A k \in DOMAIN commands :
            /\ (~results[k].raised /\ results[k].returncode # 0) =>
                  LogRecord("WARNING", "command_failed", output_files[k].key) \in log
            /\ (~results[k].raised
                /\ (results[k].returncode # 0 \/ ~outdir[commands[k].out].exists)) =>
                  df.cell[commands[k].subject][commands[k].query] = NaN

\* the BestMatch that the output file of a job stands for by itself
OwnBestMatch(file) ==
    IF ~file.exists \/ file.rows = <<>>
    THEN NaN
    ELSE IntCell(IntOf[Allele(file.rows, LSMinimalHit(file.rows))])

\* the profile table by itself breaks the run off
ProfileUnusable ==
    \/ ~profile.readable
    \/ profile.rows = <<>>
    \/ "ST" \notin Range(profile.header)
    \/ ~(Range(profile.header) \ {"ST", "clonal_complex"} \subseteq Range(alleles))

\* the output of a job that did not fail names an allele that is no integer
OddAllele(k) ==
    /\ ~JobFailed(k)
    /\ outdir[commands[k].out].rows # <<>>
    /\ ~IsInt(Allele(outdir[commands[k].out].rows,
                     LSMinimalHit(outdir[commands[k].out].rows)))

C9_OneBestMatchPerPair ==
    df # NoFrame =>
        \A g \in Range(genomes) : \A a \in Range(alleles) :
            /\ writes[<<g, a>>] = 1
            /\ df.cell[g][a].kind \in {"int", "nan"}

\* processing is over after a run in which a job failed
C9_Witness ==
    /\ pc = "assign"
    /\ \E k \in DOMAIN commands : JobFailed(k)
    /\ \E k \in DOMAIN commands : ~JobFailed(k)
    /\ \A g \in Range(genomes) : \A a \in Range(alleles) : writes[<<g, a>>] = 1

\* the table a run writes when the loci are enumerated in the order al and
\* the genomes in the order ge, and the job of every pair leaves the file fs
\* holds for it
ResultTable(al, ge, fs, pf) ==
    LET frame == DataFrame(ge, al \o <<"ST">>)
        p == ProcessItems(OutputFiles(Commands(al, ge)), 1, fs, frame.cell,
                          NoWrites, {})
    IN  AssignSequenceTypesOf([frame EXCEPT !.cell = p.cell], pf).df

\* C12: the output table of a run, with its row order and its column order,
\* is the table of every other run on the same inputs: it does not depend on
\* the order in which the directories are enumerated or the jobs complete.
C12_OutputIndependentOfEnumeration ==
    pc \in {"write", "done"} =>
        \A al \in Perms(Range(alleles)) : \A ge \in Perms(Range(genomes)) :
            ResultTable(al, ge, outdir, profile) = df

\* C13: the result table has exactly one row per loaded genome, and its
\* columns are the locus names in ascending order followed by ST.
C13_OneRowPerGenomeSortedColumns ==
    pc \in {"write", "done"} =>
        /\ Len(df.index) = Len(genomes)
        /\ Range(df.index) = Range(genomes)
        /\ \E order \in Perms(Range(alleles)) :
              /\ Ascending(order)
              /\ df.columns = order \o <<"ST">>

(***************************************************************************)
(* The loaders', the output directory's and the scheduler's claims, on the *)
(* runs from _load_alleles on.                                             *)
(***************************************************************************)
\* the files of a directory that a loader takes a name from
Loaded(directory) ==
    SelectSeq(directory.files,
              LAMBDA f : LowerOf[f.suffix] \in Extensions /\ f.parses /\ f.ids # <<>>)

\* two genome files of the genome directory give the same genome id
GenomeIdCollision ==
    \E i, j \in DOMAIN Loaded(genomedir) :
        /\ i # j
        /\ IsolateIdOf[Loaded(genomedir)[i].stem] = IsolateIdOf[Loaded(genomedir)[j].stem]

\* C14: when two genome files give the same genome id after '|' and ' ' are
\* replaced by '_', the run breaks off in the genome loader: no job is ever
\* created.
C14_CollisionStartsNoJob == GenomeIdCollision => commands = <<>>

\* C15: a run in which the locus loader loaded no locus or the genome loader
\* no genome breaks off and does not get to scheduling.
C15_EmptyLoadAborts == pc = "wait" => (alleles # <<>> /\ genomes # <<>>)

\* an input directory does not exist
MissingDirectory == ~indir.exists \/ ~genomedir.exists

\* C16: when the locus directory or the genome directory does not exist, the
\* run never gets past the loaders and creates no job, it ends with exit
\* status 1, and no step of it creates, removes or changes the output
\* directory.
C16_MissingDirectoryAborts ==
    /\ [](MissingDirectory =>
            /\ pc \in {"load_alleles", "load_genomes", "aborted"}
            /\ commands = <<>>
            /\ pc = "aborted" => exit_status = <<1>>)
    /\ [][MissingDirectory =>
            /\ UNCHANGED <<outdir, outdir_exists>>
            /\ ((pc = "load_alleles" /\ ~indir.exists)
                \/ (pc = "load_genomes" /\ ~genomedir.exists)) => pc' = "aborted"]_vars

\* the loci were loaded, the genome directory is missing and the run is over
\* with status 1; the output directory of an earlier run is still there
\* although --force was given
C16_Witness ==
    /\ pc = "aborted"
    /\ exit_status = <<1>>
    /\ indir.exists
    /\ alleles # <<>>
    /\ ~genomedir.exists
    /\ force
    /\ outdir_exists
    /\ outdir = StaleDirectory
    /\ commands = <<>>

\* _create_output_directory has not returned yet
BeforeOutputDirectory == pc \in {"load_alleles", "load_genomes", "create_outdir"}

\* C17: when the output directory exists and --force is not given, no step
\* of the run changes the directory or its contents or creates a job;
\* _create_output_directory ends the run, with exit status 1, and nothing
\* happens after that.
C17_ExistingDirectoryWithoutForce ==
    [][/\ pc # "aborted"
       /\ (BeforeOutputDirectory /\ outdir_exists /\ ~force) =>
            /\ UNCHANGED <<outdir, outdir_exists, commands>>
            /\ pc' \in {"load_genomes", "create_outdir", "aborted"}
            /\ pc = "create_outdir" => (pc' = "aborted" /\ exit_status' = <<1>>)]_vars

\* both loaders loaded something, and the run ended with status 1 at the
\* output directory, which still holds the file of the earlier run
C17_Witness ==
    /\ pc = "aborted"
    /\ exit_status = <<1>>
    /\ alleles # <<>>
    /\ genomes # <<>>
    /\ ~force
    /\ outdir_exists
    /\ outdir = StaleDirectory
    /\ LogRecord("ERROR", "outdir_exists", <<>>) \in log
    /\ commands = <<>>

\* C20: the scheduler creates exactly one job for each (locus, genome) pair
\* of the loaded loci and genomes, N = |loci| x |genomes| jobs in all, and no
\* two jobs have the same target key (genome, locus).
C20_OneJobPerPair ==
    pc = "wait" =>
        /\ Len(commands) = Cardinality(Range(alleles)) * Cardinality(Range(genomes))
        /\ Len(output_files) = Len(commands)
        /\ \A a \in Range(alleles) : \A g \in Range(genomes) :
              Cardinality({k \in DOMAIN commands :
                              /\ commands[k].query = a
                              /\ commands[k].subject = g
                              /\ output_files[k].key = <<g, a>>}) = 1
        /\ \A j, k \in DOMAIN output_files :
              j # k => output_files[j].key # output_files[k].key

\* two loci and two genomes were loaded and four jobs are submitted
C20_Witness ==
    /\ pc = "wait"
    /\ Len(alleles) = 2
    /\ Len(genomes) = 2
    /\ Len(commands) = 4

(***************************************************************************)
(* The writer's claim, on _write_results.                                  *)
(***************************************************************************)
\* the format text t is in the --formats list
Asked(t) == t \in Range(formats)

UnknownFormatWarning(fmt) == LogRecord("WARNING", "unknown_format", <<fmt>>)

\* C19: an unknown format in the --formats list is skipped with a warning:
\* the run ends normally, and the file of every recognized format of the
\* list, before and after the unknown one, is written.
C19_UnknownFormatSkipped ==
    pc # "write" =>
        /\ pc = "done"
        /\ exit_status = <<0>>
        /\ Asked("csv") <=> "csv" \in written
        /\ Asked("tab") <=> "tab" \in written
        /\ Asked("TSV") <=> "tsv" \in written
        /\ Asked(" xlsx") <=> "xlsx" \in written
        /\ Asked("pdf") <=> UnknownFormatWarning("pdf") \in log
        /\ Asked("") <=> UnknownFormatWarning("") \in log

\* the unknown format pdf stands between csv and tab, and both are written
C19_Witness ==
    /\ pc = "done"
    /\ formats = <<"csv", "pdf", "tab">>
    /\ written = {"csv", "tab"}
    /\ UnknownFormatWarning("pdf") \in log

(***************************************************************************)
(* The claims on the worker pool, on the pipeline.                         *)
(***************************************************************************)
\* C21: whatever the order in which the jobs start and complete, the file
\* at a job's output path changes only when that job itself completes, the
\* mapping handed on gives every (genome, locus) key the path of its own job,
\* and every BestMatch and the final table are what the files of the jobs
\* give by themselves.
C21_OrderIndependent ==
    /\ [][/\ pc # "wait" => outdir' = outdir
          /\ pc = "wait" =>
                \A k \in DOMAIN commands :
                    results'[k] = results[k] =>
                        outdir'[commands[k].out] = outdir[commands[k].out]]_vars
    /\ [](pc # "blast" =>
            /\ DOMAIN output_files = DOMAIN commands
            /\ \A k \in DOMAIN commands :
                  /\ output_files[k].key = <<commands[k].subject, commands[k].query>>
                  /\ output_files[k].path = commands[k].out)
    /\ [](pc \in {"assign", "write", "done"} =>
            \A k \in DOMAIN commands :
                df.cell[commands[k].subject][commands[k].query]
                    = OwnBestMatch(outdir[commands[k].out]))
    /\ [](pc \in {"write", "done"} =>
            df = ResultTable(alleles, genomes, outdir, profile))

\* the second job has completed and written its file while the first one,
\* submitted before it, is still running
C21_Witness ==
    /\ pc = "wait"
    /\ results[1].state = "running"
    /\ results[2].state = "done"
    /\ outdir[commands[2].out].exists
    /\ ~outdir[commands[1].out].exists

\* every submitted job has completed
AllJobsDone ==
    /\ commands # <<>>
    /\ \A k \in DOMAIN results : results[k].state = "done"

\* C22 as stated: when the subprocess of every job has exited, the run gets
\* to result writing, so that it never ends without it.
C22_AllExitReachesWriting == AllJobsDone => pc # "aborted"

\* C22: when every subprocess eventually exits, the scheduler eventually
\* returns and the run ends, with the result table written unless processing
\* or the resolver breaks it off; the scheduler returns only when every job
\* has completed, so that while one subprocess has not exited no downstream
\* step runs.
C22_SchedulerReturnsWhenAllExit ==
    /\ <>Downstream
    /\ <>(pc \in {"done", "aborted"})
    /\ [](pc = "done" => written # {})
    /\ [](pc # "blast" /\ ~AllJobsDone => pc = "wait")
    /\ [][pc = "wait" /\ pc' # "wait" => AllJobsDone]_vars

\* every job but the first has completed, the subprocess of the first is
\* still running, and the scheduler waits for it
C22_Witness ==
    /\ pc = "wait"
    /\ waited = 0
    /\ results[1].state = "running"
    /\ \A k \in DOMAIN results : k # 1 => results[k].state = "done"

\* C23: each job is invoked exactly once per run: the list of jobs is fixed
\* at submission, a running job only goes on running or completes, and a
\* completed job, failed or not, keeps its result and is never queued or run
\* again.
C23_InvokedOnce ==
    /\ [][/\ pc # "blast" => commands' = commands
          /\ \A k \in DOMAIN results :
                /\ results[k].state = "done" => results'[k] = results[k]
                /\ results[k].state = "running" =>
                      results'[k].state \in {"running", "done"}]_vars
    /\ [](pc # "blast" => DOMAIN results = DOMAIN commands)

\* the scheduler has returned after a run in which the subprocess of the
\* first job exited nonzero and that of the second raised
C23_Witness ==
    /\ pc = "process"
    /\ results[1].state = "done" /\ results[1].returncode # 0
    /\ results[2].state = "done" /\ results[2].raised
    /\ Len(commands) = Len(alleles) * Len(genomes)

\* the jobs whose subprocess is executing
Executing == {k \in DOMAIN results : results[k].state = "running"}

\* C24: at every moment of a run at most as many subprocesses execute as the
\* pool has workers, and the size of the pool, the parallelism of the
\* machine, is the same for the whole run.
C24_AtMostPoolSize ==
    /\ [](Cardinality(Executing) <= processes)
    /\ [][processes' = processes]_vars

\* a pool of two workers is full, and a job waits in the queue after another
\* one has completed
C24_Witness ==
    /\ pc = "wait"
    /\ processes = 2
    /\ Cardinality(Executing) = 2
    /\ \E k \in DOMAIN results : results[k].state = "queued"
    /\ \E k \in DOMAIN results : results[k].state = "done"

(***************************************************************************)
(* The claims on names and paths, on the runs from _load_alleles on.       *)
(***************************************************************************)
\* the locus of a sequence named <locus>_<allele_number>: the id without its
\* last '_'-separated token
LocusOf(id) == SubSeq(id, 1, Len(id) - 1)

\* C25: for every locus file whose sequences are named
\* <locus>_<allele_number>, the allele number being the part after the last
\* underscore, the loader records the locus under the name <locus>.
C25_LocusRecordedUnderItsName ==
    pc \notin {"load_alleles", "aborted"} =>
        \A i \in DOMAIN Loaded(indir) :
            \E k \in DOMAIN alleles :
                <<alleles[k]>> = LocusOf(Loaded(indir)[i].ids[1])

\* the rows of a job output listed in the order p
Reordered(rows, p) == [i \in DOMAIN rows |-> rows[p[i]]]

\* C26: _find_best_allele returns the same allele for every order in which
\* the rows of a job output are listed.
C26_SameAlleleForEveryOrder ==
    (best_allele # None /\ blast_file.exists) =>
        \A p \in Perms(DOMAIN blast_file.rows) :
            FindBestAllele(File(Reordered(blast_file.rows, p))).ret
                = best_allele[1].ret

\* C27: no two jobs of one run are given the same output file path: the
\* paths <locus>_vs_<genome_id>.tab of the jobs are pairwise distinct.
C27_DistinctOutputPaths ==
    pc = "wait" =>
        \A j, k \in DOMAIN commands :
            j # k => commands[j].out # commands[k].out

\* four jobs are submitted, for a locus of a sequence name with two
\* underscores and a genome id that holds an underscore
C27_Witness ==
    /\ pc = "wait"
    /\ Len(commands) = 4
    /\ \E k \in DOMAIN commands :
          commands[k].query = "pas" /\ commands[k].subject = "G_2"


\* no command has been started yet
NoneStarted == \A k \in DOMAIN results : results[k] = Queued

\* C28: when the jobs are launched the output directory exists and holds no
\* file, be it newly created or removed and created again under --force, so
\* that every job output read later was written by a job of this run.
C28_LaunchedIntoEmptyDirectory ==
    (pc \in {"blast", "wait"} /\ NoneStarted) =>
        /\ outdir_exists
        /\ \A path \in DOMAIN outdir : ~outdir[path].exists

\* the jobs are submitted after an existing output directory was removed
\* under --force
C28_Witness ==
    /\ pc = "wait"
    /\ commands # <<>>
    /\ force
    /\ LogRecord("INFO", "removing_outdir", <<>>) \in log
    /\ outdir = EmptyDirectory


\* the loop of _process_blast_results on the single pair (abc, G1) whose job
\* output is the file
OnePairProcessed(file) ==
    LET frame == DataFrame(<<"G1">>, <<"abc", "ST">>)
    IN  ProcessItems(OutputFiles(Commands(<<"abc">>, <<"G1">>)), 1,
                     [EmptyDirectory EXCEPT ![OutputFile("abc", "G1")] = file],
                     frame.cell, NoWrites, {})

\* C29: when a row of a job output cannot be parsed (a numeric field that is
\* no number, or too few columns), the result of the pair is none whatever
\* the other rows hold, an error is logged, and the processing loop does not
\* break off.
C29_UnparsableRowGivesNone ==
    (best_allele # None /\ blast_file.exists /\ ~AllParse(blast_file.rows)) =>
        /\ best_allele[1].ret = None
        /\ best_allele[1].error
        /\ LET p == OnePairProcessed(blast_file)
           IN  /\ ~p.raised
               /\ p.cell["G1"]["abc"] = NaN
               /\ LogRecord("ERROR", "processing_error", <<"G1", "abc">>)
                     \in p.log

\* the selector has returned none for a file of a hit followed by a row
\* that is too short
C29_Witness ==
    /\ best_allele # None
    /\ blast_file.exists
    /\ Len(blast_file.rows) = 2
    /\ RowParses(blast_file.rows[1])
    /\ blast_file.rows[2].qlen = Missing
    /\ best_allele[1].ret = None
    /\ best_allele[1].error


(***************************************************************************)
(* The claim on a selected hit whose allele is no integer.                 *)
(***************************************************************************)
\* the hit the selector takes from the output of job k has a query ID
\* without an integer after its last underscore
OddSelected(k) ==
    LET r == FindBestAllele(outdir[commands[k].out])
    IN  r.ret # None /\ ~IsInt(r.ret[1])

\* C30: when the selected hit of a job output has a query ID without an
\* integer after its last underscore, the run breaks off with exit status 1
\* and writes no result table; the pair is not given the value none.
C30_OddAlleleAbortsRun ==
    (pc \in {"assign", "write", "done", "aborted"}
     /\ \E k \in DOMAIN commands : OddSelected(k)) =>
        /\ pc = "aborted"
        /\ exit_status = <<1>>
        /\ df = NoFrame
        /\ written = {}

\* the run has broken off although the profile table is usable: one job
\* output names the allele x, another one an allele number
C30_Witness ==
    /\ pc = "aborted"
    /\ exit_status = <<1>>
    /\ written = {}
    /\ ~ProfileUnusable
    /\ \E k \in DOMAIN commands : OddSelected(k)
    /\ \E k \in DOMAIN commands :
          FindBestAllele(outdir[commands[k].out]).ret = <<"1">>

====
